---- MODULE Spec2Model ----
(***************************************************************************)
(* A model of the USCS ppzkSNARK of                                        *)
(*   include/nil/crypto3/zk/snark/proof_systems/detail/ppzksnark/          *)
(*   uscs_ppzksnark/basic_policy.hpp                                       *)
(* (generator, prover, verifier_process_vk and the four verifiers) over a  *)
(* small bilinear group.                                                   *)
(*                                                                         *)
(* The curve is a template parameter of the policy.  It is instantiated    *)
(* here with a toy pairing group: the scalar field is F_R, a point of G1   *)
(* or G2 is written d + R*c with d its discrete logarithm to the generator *)
(* and c its component in the cofactor (c = 0 exactly for the points of    *)
(* the prime-order subgroup), a Miller-loop value is <<e, u>> with e its   *)
(* exponent to e(G1, G2) and u the part the final exponentiation removes.  *)
(***************************************************************************)
EXTENDS Integers, Sequences, FiniteSets, TLC

VARIABLES
    cs,        \* the constraint system handed to the generator
    ndebug,    \* the build: TRUE when assert() is compiled out (NDEBUG)
    trap,      \* ghost: the scalars (t, alpha, tilde) the generator sampled
    pk,        \* the proving key, or None
    vk,        \* the verification key, or None
    pvk,       \* the processed verification key, or None
    prf,       \* the proof at hand
    wit,       \* ghost: where prf comes from (src, and x, y, d of the prover run)
    call,      \* the last invocation: function, primary input, outcome
    locals     \* what the locals t, alpha, tilde of generator and d of prover
               \* hold when the function returns

vars == <<cs, ndebug, trap, pk, vk, pvk, prf, wit, call, locals>>

\* the absent key, proof or trapdoor (a record, as the present ones are)
None == [absent |-> TRUE]

(***************************************************************************)
(* Bounds of the model.                                                    *)
(***************************************************************************)
\* primary and auxiliary input values are drawn from 0..MaxIn
MaxIn == 1
\* the prover's blinding scalar d is drawn from 0..MaxD
MaxD == 1
\* a primary input handed to a verifier has at most num_inputs + MaxExtra entries
MaxExtra == 1
\* the generator draws alpha from 0..MaxAlpha and tilde from 0..MaxTilde
MaxAlpha == 2
MaxTilde == 1
\* the adversarial specification draws t from 0..MaxAdvT
MaxAdvT == 1
\* a MULTICORE build runs the prover's multiexps with 1..MaxChunks chunks
MaxChunks == 2
\* the sharing specification runs the verifiers MaxCalls times
MaxCalls == 2

(***************************************************************************)
(* The scalar field F_r.                                                   *)
(***************************************************************************)
R == 5

Fr == 0..(R - 1)

Min(a, b) == IF a < b THEN a ELSE b

FAdd(a, b) == (a + b) % R
FSub(a, b) == (a + R - b) % R
FMul(a, b) == (a * b) % R
FNeg(a) == (R - a) % R
FInv(a) == CHOOSE b \in Fr : (a * b) % R = 1

RECURSIVE FPow(_, _)
FPow(a, n) == IF n = 0 THEN 1 ELSE FMul(a, FPow(a, n - 1))

\* the sum of f[lo], ..., f[hi] in F_r
RECURSIVE FSum(_, _, _)
FSum(f, lo, hi) == IF lo > hi THEN 0 ELSE FAdd(f[lo], FSum(f, lo + 1, hi))

(***************************************************************************)
(* The groups G1 and G2 (additive).                                        *)
(***************************************************************************)
GDlog(g) == g % R
GCof(g) == g \div R
GElem(d, c) == d + R * c

G1_one == 1
G1_zero == 0
G2_one == 1

GPoints == 0..(2 * R - 1)

GAdd(a, b) == GElem(FAdd(GDlog(a), GDlog(b)), (GCof(a) + GCof(b)) % 2)
\* s * g for a scalar s
GMul(s, g) == GElem(FMul(s, GDlog(g)), (s * GCof(g)) % 2)
\* curve membership and subgroup check of one point
point_is_well_formed(g) == GCof(g) = 0

(***************************************************************************)
(* The pairing, factored as Miller loop and final exponentiation.          *)
(***************************************************************************)
precompute_g1(P) == P
precompute_g2(Q) == Q
\* the value of a Miller loop is not reduced: its second component is not 0
miller_loop(P, Q) == <<FMul(GDlog(P), GDlog(Q)), 1>>
FqkMul(a, b) == <<FAdd(a[1], b[1]), (a[2] + b[2]) % 2>>
\* conjugation: inverts the part that survives the final exponentiation
unitary_inversed(a) == <<FNeg(a[1]), a[2]>>
final_exponentiation(a) == <<a[1], 0>>
GT_one == <<0, 0>>

(***************************************************************************)
(* USCS constraint systems.  A constraint is a linear form over            *)
(* (1, x_1..x_num_inputs, y_1..y_num_auxiliary), written as the sequence   *)
(* of its num_variables + 1 coefficients (the coefficient of variable i at *)
(* position i + 1); it is satisfied when the form squares to 1.            *)
(***************************************************************************)
\* the trivial circuit: x_1^2 = 1
CS_trivial ==
    [num_inputs |-> 1, num_variables |-> 1, constraints |-> << <<0, 1>> >>]
\* two inputs, one auxiliary variable: (1 + x_1 - x_2 + y_1)^2 = 1
CS_two_inputs ==
    [num_inputs |-> 2, num_variables |-> 3,
     constraints |-> << <<1, 1, R - 1, 1>> >>]
\* one input, one auxiliary variable, three constraints (a domain of size 4):
\* x_1^2 = 1, (x_1 + y_1)^2 = 1, (1 + y_1)^2 = 1
CS_three_constraints ==
    [num_inputs |-> 1, num_variables |-> 2,
     constraints |-> << <<0, 1, 0>>, <<0, 1, 1>>, <<1, 0, 1>> >>]

\* two malformed systems: more inputs than variables, and no constraint
CS_more_inputs ==
    [num_inputs |-> 2, num_variables |-> 1, constraints |-> << <<0, 1>> >>]
CS_empty ==
    [num_inputs |-> 0, num_variables |-> 0, constraints |-> << >>]

ConstraintSystems ==
    {CS_trivial, CS_two_inputs, CS_three_constraints, CS_more_inputs, CS_empty}

num_constraints(c) == Len(c.constraints)

\* the shape both maps of the reduction require
is_valid_shape(c) ==
    /\ num_constraints(c) > 0
    /\ c.num_inputs <= c.num_variables

\* a failure raised by a callee, which ends the caller with it
Failure(name) == [failure |-> name]
Failed(r) == "failure" \in DOMAIN r

\* the value of one linear form on the full assignment a = x o y
evaluate(form, a) ==
    FAdd(form[1], FSum([i \in 1..Len(a) |-> FMul(form[i + 1], a[i])], 1, Len(a)))

is_satisfied(c, x, y) ==
    /\ Len(x) = c.num_inputs
    /\ Len(y) = c.num_variables - c.num_inputs
    /\ \A k \in 1..num_constraints(c) :
           FMul(evaluate(c.constraints[k], x \o y),
                evaluate(c.constraints[k], x \o y)) = 1

(***************************************************************************)
(* The USCS-to-SSP reduction (reductions/uscs_to_ssp.hpp), section 4.1.    *)
(***************************************************************************)
RECURSIVE NextPow2(_, _)
NextPow2(p, n) == IF p >= n THEN p ELSE NextPow2(2 * p, n)

\* |H|: the smallest power of two >= num_constraints + 1
degree(c) == NextPow2(1, num_constraints(c) + 1)

\* a generator of the subgroup H of order m
Omega(m) ==
    CHOOSE w \in 1..(R - 1) :
        /\ FPow(w, m) = 1
        /\ \A j \in 1..(m - 1) : FPow(w, j) # 1

\* the k-th Lagrange polynomial of H at the point t, k in 0..m-1
Lagrange(m, k, t) ==
    LET wk == FPow(FInv(Omega(m)), k)
    IN  FMul(FInv(m % R),
             FSum([j \in 0..(m - 1) |-> FPow(FMul(wk, t), j)], 0, m - 1))

\* V_i at the k-th root of unity: the i-th coefficient of the k-th constraint;
\* at an unused point 0, except that the constant slot takes 1 there (the
\* form 1 squares to 1), so that P^2 - 1 vanishes on all of H for a
\* satisfying assignment and H(X) = (P(X)^2 - 1) / Z(X) is a polynomial
ValueAtRoot(c, i, k) ==
    IF k < num_constraints(c) THEN c.constraints[k + 1][i + 1]
    ELSE IF i = 0 THEN 1 ELSE 0

\* V_i(t)
V_at(c, i, t) ==
    LET m == degree(c)
    IN  FSum([k \in 0..(m - 1) |-> FMul(ValueAtRoot(c, i, k), Lagrange(m, k, t))],
             0, m - 1)

\* Z(t), Z(X) = X^m - 1 the vanishing polynomial of H
Z_at(c, t) == FSub(FPow(t, degree(c)), 1)

ssp_instance_evaluation(c, t) ==
    [Vt |-> [i \in 1..(c.num_variables + 1) |-> V_at(c, i - 1, t)],
     Ht |-> [k \in 1..(degree(c) + 1) |-> FPow(t, k - 1)],
     Zt |-> Z_at(c, t),
     degree |-> degree(c),
     num_variables |-> c.num_variables,
     num_inputs |-> c.num_inputs]

\* the reduction is a function of (cs, t): tabulated once
InstanceTable ==
    [c \in ConstraintSystems |-> [t \in Fr |-> ssp_instance_evaluation(c, t)]]

\* a variant of instance_map_with_evaluation without the shape check
instance_map_with_evaluation_unchecked(c, t) == InstanceTable[c][t]

instance_map_with_evaluation(c, t) ==
    IF ~is_valid_shape(c) THEN Failure("InvalidShape") ELSE InstanceTable[c][t]

\* the coefficient of X^j in V_i(X), j in 0..m-1 (the inverse transform of
\* its values on H)
V_coeff(c, i, j) ==
    LET m == degree(c)
        winv == FInv(Omega(m))
    IN  FMul(FInv(m % R),
             FSum([k \in 0..(m - 1) |->
                      FMul(ValueAtRoot(c, i, k), FPow(winv, k * j))], 0, m - 1))

\* the coefficients (of X^0..X^m, at positions 1..m+1) of
\* P(X) = V_0(X) + sum_i a_i V_i(X) + d Z(X)
P_poly(c, a, d) ==
    LET m == degree(c)
        lin(j) == FAdd(V_coeff(c, 0, j),
                       FSum([i \in 1..Len(a) |-> FMul(a[i], V_coeff(c, i, j))],
                            1, Len(a)))
    IN  [j \in 1..(m + 1) |->
            IF j = 1 THEN FSub(lin(0), d)
            ELSE IF j = m + 1 THEN d
            ELSE lin(j - 1)]

\* the coefficient of X^n in p(X)^2 - 1, for p of degree m
SquareMinusOne(p, m, n) ==
    FSub(FSum([i \in 0..m |->
                  IF n - i >= 0 /\ n - i <= m
                  THEN FMul(p[i + 1], p[n - i + 1]) ELSE 0], 0, m),
         IF n = 0 THEN 1 ELSE 0)

\* the quotient of p(X)^2 - 1 by Z(X) = X^m - 1: degree + 1 coefficients
H_poly(p, m) ==
    [j \in 1..(m + 1) |->
        IF j = 1 THEN FAdd(SquareMinusOne(p, m, m), SquareMinusOne(p, m, 2 * m))
        ELSE SquareMinusOne(p, m, m + j - 1)]

\* coefficients_for_Vs is the variable assignment x o y: the prover pairs
\* coefficients_for_Vs[0 .. num_variables) with V_g2_query[1 .. num_variables]
ssp_witness(c, x, y, d) ==
    [coefficients_for_Vs |-> x \o y,
     coefficients_for_H |-> H_poly(P_poly(c, x \o y, d), degree(c)),
     d |-> d,
     degree |-> degree(c),
     num_variables |-> c.num_variables,
     num_inputs |-> c.num_inputs]

\* the primary and auxiliary inputs of length n the model draws
Inputs(n) == [1..n -> 0..Min(MaxIn, R - 1)]
\* the blinding scalars the model draws
Blindings == 0..Min(MaxD, R - 1)

\* the witness map is a function of (cs, x, y, d): tabulated once
WitnessTable ==
    [c \in {c \in ConstraintSystems : is_valid_shape(c)} |->
        [x \in Inputs(c.num_inputs) |->
            [y \in Inputs(c.num_variables - c.num_inputs) |->
                [d \in Blindings |-> ssp_witness(c, x, y, d)]]]]

witness_map(c, x, y, d) ==
    IF ~is_valid_shape(c) THEN Failure("InvalidShape")
    ELSE IF ~is_satisfied(c, x, y) THEN Failure("UnsatisfiedWitness")
    ELSE WitnessTable[c][x][y][d]

(***************************************************************************)
(* Accumulation vectors over G1 (accumulation_vector.hpp), section 4.5:    *)
(* a base element and the elements of the positions not yet accumulated.   *)
(***************************************************************************)
RECURSIVE GSum(_, _, _)
GSum(f, lo, hi) == IF lo > hi THEN G1_zero ELSE GAdd(f[lo], GSum(f, lo + 1, hi))

accumulation_vector(first, v) ==
    [first |-> first,
     rest |-> [i \in 1..Len(v) |-> <<i - 1, v[i]>>],
     domain_size |-> Len(v)]

domain_size(av) == av.domain_size

\* the frontier has covered the whole domain: nothing is left to accumulate
is_fully_accumulated(av) == Len(av.rest) = 0

\* folds scalars[j] * value[offset + j] into first; the positions outside
\* offset .. offset + |scalars| - 1 stay in rest
accumulate_chunk(av, scalars, offset) ==
    LET InChunk(e) == offset <= e[1] /\ e[1] < offset + Len(scalars)
        OutOfChunk(e) == ~InChunk(e)
        hit == SelectSeq(av.rest, InChunk)
    IN  [first |-> GAdd(av.first,
                        GSum([j \in 1..Len(hit) |->
                                 GMul(scalars[hit[j][1] - offset + 1], hit[j][2])],
                             1, Len(hit))),
         rest |-> SelectSeq(av.rest, OutOfChunk),
         domain_size |-> av.domain_size]

(***************************************************************************)
(* Exponentiation helpers of the algebra library.                          *)
(***************************************************************************)
\* batch_exp over the window table of base: v[i] * base
batch_exp(base, v) == [i \in 1..Len(v) |-> GMul(v[i], base)]
\* a variant of batch_exp_with_coeff that leaves the coefficient out
batch_exp_with_coeff_left_out(base, coeff, v) ==
    [i \in 1..Len(v) |-> GMul(v[i], base)]

batch_exp_with_coeff(base, coeff, v) ==
    [i \in 1..Len(v) |-> GMul(FMul(coeff, v[i]), base)]

multiexp_inner(bases, scalars, lo, hi) ==
    GSum([i \in lo..hi |-> GMul(scalars[i], bases[i])], lo, hi)

\* a variant of multiexp whose last chunk is as long as the others
multiexp_without_remainder(bases, scalars, n) ==
    LET total == Len(bases)
        one == total \div n
    IN  IF one = 0 THEN multiexp_inner(bases, scalars, 1, total)
        ELSE GSum([c \in 0..(n - 1) |->
                      multiexp_inner(bases, scalars, c * one + 1, (c + 1) * one)],
                  0, n - 1)

\* the sum of scalars[i] * bases[i], computed as n partial sums
multiexp(bases, scalars, n) ==
    LET total == Len(bases)
        one == total \div n
    IN  IF one = 0 THEN multiexp_inner(bases, scalars, 1, total)
        ELSE GSum([c \in 0..(n - 1) |->
                      multiexp_inner(bases, scalars, c * one + 1,
                                     IF c = n - 1 THEN total ELSE (c + 1) * one)],
                  0, n - 1)

\* the prover's chunk count without MULTICORE
chunks == 1
\* the chunk counts of the builds: 1, or omp_get_max_threads() with MULTICORE
ChunkCounts == chunks..MaxChunks

(***************************************************************************)
(* The proof.                                                              *)
(***************************************************************************)
proof(V_g1, alpha_V_g1, H_g1, V_g2) ==
    [V_g1 |-> V_g1, alpha_V_g1 |-> alpha_V_g1, H_g1 |-> H_g1, V_g2 |-> V_g2]

\* proof(): an invalid proof with valid curve points
default_proof == proof(G1_one, G1_one, G1_one, G2_one)

\* a variant of is_well_formed that leaves V_g2 unchecked
is_well_formed_without_V_g2(p) ==
    /\ point_is_well_formed(p.V_g1)
    /\ point_is_well_formed(p.alpha_V_g1)
    /\ point_is_well_formed(p.H_g1)

is_well_formed(p) ==
    /\ point_is_well_formed(p.V_g1)
    /\ point_is_well_formed(p.alpha_V_g1)
    /\ point_is_well_formed(p.H_g1)
    /\ point_is_well_formed(p.V_g2)

(***************************************************************************)
(* generator: the keypair for the scalars t, alpha, tilde it sampled, the  *)
(* failure of the reduction, or an abort when one of its assertions fails  *)
(* in a build that has them.                                               *)
(***************************************************************************)
\* a variant of Xt_table that ends one entry early
Xt_table_one_short(Vt_table, num_inputs) == SubSeq(Vt_table, 1, num_inputs)

\* the split of Vt_table: its first num_inputs + 1 entries, and the others
Xt_table(Vt_table, num_inputs) == SubSeq(Vt_table, 1, num_inputs + 1)

\* a variant of Vt_table_minus_Xt_table that starts at the last input
Vt_table_minus_Xt_table_from_input(Vt_table, num_inputs) ==
    SubSeq(Vt_table, num_inputs + 1, Len(Vt_table))

Vt_table_minus_Xt_table(Vt_table, num_inputs) ==
    SubSeq(Vt_table, num_inputs + 2, Len(Vt_table))

\* a variant of sanity_checks without the loop over Xt_table
sanity_checks_sizes_only(ssp_inst, Vt_table, Ht_table, Xt, Vt_minus_Xt) ==
    /\ Len(Vt_table) = ssp_inst.num_variables + 2
    /\ Len(Ht_table) = ssp_inst.degree + 1
    /\ Len(Xt) = ssp_inst.num_inputs + 1
    /\ Len(Vt_minus_Xt) = ssp_inst.num_variables + 2 - ssp_inst.num_inputs - 1

\* the generator's sanity checks: the four sizes, and no zero in Xt_table
sanity_checks(ssp_inst, Vt_table, Ht_table, Xt, Vt_minus_Xt) ==
    /\ Len(Vt_table) = ssp_inst.num_variables + 2
    /\ Len(Ht_table) = ssp_inst.degree + 1
    /\ Len(Xt) = ssp_inst.num_inputs + 1
    /\ Len(Vt_minus_Xt) = ssp_inst.num_variables + 2 - ssp_inst.num_inputs - 1
    /\ \A i \in 1..(ssp_inst.num_inputs + 1) : Xt[i] # 0

generator(c, t, alpha, tilde) ==
    LET ssp_inst == instance_map_with_evaluation(c, t)
        Vt_table == Append(ssp_inst.Vt, ssp_inst.Zt)
        Ht_table == ssp_inst.Ht
        Xt == Xt_table(Vt_table, ssp_inst.num_inputs)
        Vt_minus_Xt == Vt_table_minus_Xt_table(Vt_table, ssp_inst.num_inputs)
        sane == sanity_checks(ssp_inst, Vt_table, Ht_table, Xt, Vt_minus_Xt)
        V_g1_query == batch_exp(G1_one, Vt_minus_Xt)
        alpha_V_g1_query ==
            batch_exp_with_coeff(G1_one, alpha, Vt_minus_Xt)
        H_g1_query == batch_exp(G1_one, Ht_table)
        V_g2_query == batch_exp(G2_one, Vt_table)
        tilde_g2 == GMul(tilde, G2_one)
        alpha_tilde_g2 == GMul(FMul(alpha, tilde), G2_one)
        Z_g2 == GMul(ssp_inst.Zt, G2_one)
        encoded_IC_base == GMul(Xt[1], G1_one)
        encoded_IC_values == batch_exp(G1_one, SubSeq(Xt, 2, Len(Xt)))
        encoded_IC_query == accumulation_vector(encoded_IC_base, encoded_IC_values)
    IN  IF Failed(ssp_inst)
        THEN [status |-> ssp_inst.failure, pk |-> None, vk |-> None,
              locals |-> None]
        ELSE IF ~ndebug /\ ~sane
        THEN [status |-> "abort", pk |-> None, vk |-> None, locals |-> None]
        ELSE [status |-> "ok",
              locals |-> [t |-> t, alpha |-> alpha, tilde |-> tilde],
              pk |-> [V_g1_query |-> V_g1_query,
                      alpha_V_g1_query |-> alpha_V_g1_query,
                      H_g1_query |-> H_g1_query,
                      V_g2_query |-> V_g2_query,
                      cs |-> c],
              vk |-> [tilde_g2 |-> tilde_g2,
                      alpha_tilde_g2 |-> alpha_tilde_g2,
                      Z_g2 |-> Z_g2,
                      encoded_IC_query |-> encoded_IC_query]]

(***************************************************************************)
(* prover: the proof for (x, y) and the sampled d, the failure of the      *)
(* reduction, or an abort when one of its assertions fails in a build that *)
(* has them; n is the chunk count of the build.                            *)
(***************************************************************************)
\* a variant of coefficients_of_auxiliary that starts at the first slot
coefficients_of_auxiliary_from_begin(ssp_wit) ==
    SubSeq(ssp_wit.coefficients_for_Vs, 1,
           ssp_wit.num_variables - ssp_wit.num_inputs)

\* the scalars of the multiexps over V_g1_query and alpha_V_g1_query:
\* coefficients_for_Vs[num_inputs .. num_variables)
coefficients_of_auxiliary(ssp_wit) ==
    SubSeq(ssp_wit.coefficients_for_Vs, ssp_wit.num_inputs + 1,
           ssp_wit.num_variables)

\* the prover from its sanity checks on, for the witness ssp_wit
prover_with_witness(k, primary_input, auxiliary_input, ssp_wit, n) ==
    LET nv == ssp_wit.num_variables
        ni == ssp_wit.num_inputs
        sane ==
            /\ is_satisfied(k.cs, primary_input, auxiliary_input)
            /\ Len(k.V_g1_query) = nv + 2 - ni - 1
            /\ Len(k.alpha_V_g1_query) = nv + 2 - ni - 1
            /\ Len(k.H_g1_query) = ssp_wit.degree + 1
            /\ Len(k.V_g2_query) = nv + 2
        V_g1_0 == GMul(ssp_wit.d, k.V_g1_query[Len(k.V_g1_query)])
        alpha_V_g1_0 == GMul(ssp_wit.d, k.alpha_V_g1_query[Len(k.alpha_V_g1_query)])
        H_g1_0 == G1_zero
        V_g2_0 == GAdd(k.V_g2_query[1],
                       GMul(ssp_wit.d, k.V_g2_query[Len(k.V_g2_query)]))
        V_g1 == GAdd(V_g1_0,
                     multiexp(SubSeq(k.V_g1_query, 1, nv - ni),
                              coefficients_of_auxiliary(ssp_wit),
                              n))
        alpha_V_g1 == GAdd(alpha_V_g1_0,
                           multiexp(SubSeq(k.alpha_V_g1_query, 1, nv - ni),
                                    coefficients_of_auxiliary(ssp_wit),
                                    n))
        H_g1 == GAdd(H_g1_0,
                     multiexp(SubSeq(k.H_g1_query, 1, ssp_wit.degree + 1),
                              SubSeq(ssp_wit.coefficients_for_H, 1, ssp_wit.degree + 1),
                              n))
        V_g2 == GAdd(V_g2_0,
                     multiexp(SubSeq(k.V_g2_query, 2, nv + 1),
                              SubSeq(ssp_wit.coefficients_for_Vs, 1, nv),
                              n))
    IN  IF ~ndebug /\ ~sane
        THEN [status |-> "abort", proof |-> default_proof, locals |-> None]
        ELSE [status |-> "ok", proof |-> proof(V_g1, alpha_V_g1, H_g1, V_g2),
              locals |-> [d |-> ssp_wit.d]]

prover(k, primary_input, auxiliary_input, d, n) ==
    LET ssp_wit == witness_map(k.cs, primary_input, auxiliary_input, d)
    IN  IF Failed(ssp_wit)
        THEN [status |-> ssp_wit.failure, proof |-> default_proof,
              locals |-> None]
        ELSE prover_with_witness(k, primary_input, auxiliary_input, ssp_wit, n)

(***************************************************************************)
(* The verifiers.  A verifier run ends with out = "true" or "false", or    *)
(* with "abort" at a failed assertion; eqs are the pairing equations it    *)
(* evaluated on the way.                                                   *)
(***************************************************************************)
verifier_process_vk(v) ==
    LET pp_G1_one_precomp == precompute_g1(G1_one)
        pp_G2_one_precomp == precompute_g2(G2_one)
    IN  [pp_G1_one_precomp |-> pp_G1_one_precomp,
         pp_G2_one_precomp |-> pp_G2_one_precomp,
         vk_tilde_g2_precomp |-> precompute_g2(v.tilde_g2),
         vk_alpha_tilde_g2_precomp |-> precompute_g2(v.alpha_tilde_g2),
         vk_Z_g2_precomp |-> precompute_g2(v.Z_g2),
         pairing_of_g1_and_g2 |-> miller_loop(pp_G1_one_precomp, pp_G2_one_precomp),
         encoded_IC_query |-> v.encoded_IC_query]

\* the three pairing products of online_verifier_weak_IC, each after its
\* final exponentiation
equation_V(p, acc, proof_) ==
    LET proof_V_g1_with_acc_precomp == precompute_g1(GAdd(proof_.V_g1, acc))
        proof_V_g2_precomp == precompute_g2(proof_.V_g2)
        V_1 == miller_loop(proof_V_g1_with_acc_precomp, p.pp_G2_one_precomp)
        V_2 == miller_loop(p.pp_G1_one_precomp, proof_V_g2_precomp)
    IN  final_exponentiation(FqkMul(V_1, unitary_inversed(V_2)))

\* a variant of equation_SSP without the factor e(G1, G2)
equation_SSP_without_unit(p, acc, proof_) ==
    LET proof_V_g1_with_acc_precomp == precompute_g1(GAdd(proof_.V_g1, acc))
        proof_V_g2_precomp == precompute_g2(proof_.V_g2)
        proof_H_g1_precomp == precompute_g1(proof_.H_g1)
        SSP_1 == miller_loop(proof_V_g1_with_acc_precomp, proof_V_g2_precomp)
        SSP_2 == miller_loop(proof_H_g1_precomp, p.vk_Z_g2_precomp)
    IN  final_exponentiation(FqkMul(unitary_inversed(SSP_1), SSP_2))

\* a variant of equation_SSP without the factor e(H_g1, Z_g2)
equation_SSP_without_H(p, acc, proof_) ==
    LET proof_V_g1_with_acc_precomp == precompute_g1(GAdd(proof_.V_g1, acc))
        proof_V_g2_precomp == precompute_g2(proof_.V_g2)
        SSP_1 == miller_loop(proof_V_g1_with_acc_precomp, proof_V_g2_precomp)
    IN  final_exponentiation(
            FqkMul(unitary_inversed(SSP_1), p.pairing_of_g1_and_g2))

equation_SSP(p, acc, proof_) ==
    LET proof_V_g1_with_acc_precomp == precompute_g1(GAdd(proof_.V_g1, acc))
        proof_V_g2_precomp == precompute_g2(proof_.V_g2)
        proof_H_g1_precomp == precompute_g1(proof_.H_g1)
        SSP_1 == miller_loop(proof_V_g1_with_acc_precomp, proof_V_g2_precomp)
        SSP_2 == miller_loop(proof_H_g1_precomp, p.vk_Z_g2_precomp)
    IN  final_exponentiation(
            FqkMul(FqkMul(unitary_inversed(SSP_1), SSP_2), p.pairing_of_g1_and_g2))

\* a variant of equation_alpha that pairs each element with the other key
\* element
equation_alpha_swapped(p, proof_) ==
    LET proof_V_g1_precomp == precompute_g1(proof_.V_g1)
        proof_alpha_V_g1_precomp == precompute_g1(proof_.alpha_V_g1)
        alpha_V_1 == miller_loop(proof_V_g1_precomp, p.vk_tilde_g2_precomp)
        alpha_V_2 == miller_loop(proof_alpha_V_g1_precomp,
                                 p.vk_alpha_tilde_g2_precomp)
    IN  final_exponentiation(FqkMul(alpha_V_1, unitary_inversed(alpha_V_2)))

equation_alpha(p, proof_) ==
    LET proof_V_g1_precomp == precompute_g1(proof_.V_g1)
        proof_alpha_V_g1_precomp == precompute_g1(proof_.alpha_V_g1)
        alpha_V_1 == miller_loop(proof_V_g1_precomp, p.vk_alpha_tilde_g2_precomp)
        alpha_V_2 == miller_loop(proof_alpha_V_g1_precomp, p.vk_tilde_g2_precomp)
    IN  final_exponentiation(FqkMul(alpha_V_1, unitary_inversed(alpha_V_2)))

\* the verdict of online_verifier_weak_IC: result starts TRUE, every failed
\* check sets it FALSE, and the run goes on to the next equation whatever
\* the result so far
weak_IC_checks(p, acc, proof_) ==
    LET s0 == [result |-> TRUE, eqs |-> {}]
        s1 == IF ~is_well_formed(proof_) THEN [s0 EXCEPT !.result = FALSE] ELSE s0
        s2 == [result |-> IF equation_V(p, acc, proof_) # GT_one
                          THEN FALSE ELSE s1.result,
               eqs |-> s1.eqs \cup {"V"}]
        s3 == [result |-> IF equation_SSP(p, acc, proof_) # GT_one
                          THEN FALSE ELSE s2.result,
               eqs |-> s2.eqs \cup {"SSP"}]
        s4 == [result |-> IF equation_alpha(p, proof_) # GT_one
                          THEN FALSE ELSE s3.result,
               eqs |-> s3.eqs \cup {"alpha"}]
    IN  [out |-> IF s4.result THEN "true" ELSE "false", eqs |-> s4.eqs]

\* a variant of online_verifier_weak_IC that returns at the failed
\* well-formedness check
online_verifier_weak_IC_early_return(p, primary_input, proof_) ==
    LET accumulated_IC == accumulate_chunk(p.encoded_IC_query, primary_input, 0)
    IN  IF ~ndebug /\ ~(domain_size(p.encoded_IC_query) >= Len(primary_input))
        THEN [out |-> "abort", eqs |-> {}]
        ELSE IF ~ndebug /\ ~is_fully_accumulated(accumulated_IC)
        THEN [out |-> "abort", eqs |-> {}]
        ELSE IF ~is_well_formed(proof_)
        THEN [out |-> "false", eqs |-> {}]
        ELSE weak_IC_checks(p, accumulated_IC.first, proof_)

\* a variant of online_verifier_weak_IC that accumulates from offset 1
online_verifier_weak_IC_offset_one(p, primary_input, proof_) ==
    LET accumulated_IC == accumulate_chunk(p.encoded_IC_query, primary_input, 1)
    IN  IF ~ndebug /\ ~(domain_size(p.encoded_IC_query) >= Len(primary_input))
        THEN [out |-> "abort", eqs |-> {}]
        ELSE IF ~ndebug /\ ~is_fully_accumulated(accumulated_IC)
        THEN [out |-> "abort", eqs |-> {}]
        ELSE weak_IC_checks(p, accumulated_IC.first, proof_)

\* a variant of online_verifier_weak_IC whose acc is the base element of the
\* query, nothing accumulated
online_verifier_weak_IC_unaccumulated(p, primary_input, proof_) ==
    LET accumulated_IC == accumulate_chunk(p.encoded_IC_query, primary_input, 0)
    IN  IF ~ndebug /\ ~(domain_size(p.encoded_IC_query) >= Len(primary_input))
        THEN [out |-> "abort", eqs |-> {}]
        ELSE IF ~ndebug /\ ~is_fully_accumulated(accumulated_IC)
        THEN [out |-> "abort", eqs |-> {}]
        ELSE weak_IC_checks(p, p.encoded_IC_query.first, proof_)

online_verifier_weak_IC(p, primary_input, proof_) ==
    LET accumulated_IC == accumulate_chunk(p.encoded_IC_query, primary_input, 0)
    IN  IF ~ndebug /\ ~(domain_size(p.encoded_IC_query) >= Len(primary_input))
        THEN [out |-> "abort", eqs |-> {}]
        ELSE IF ~ndebug /\ ~is_fully_accumulated(accumulated_IC)
        THEN [out |-> "abort", eqs |-> {}]
        ELSE weak_IC_checks(p, accumulated_IC.first, proof_)

\* a variant of online_verifier_strong_IC without the length check
online_verifier_strong_IC_unchecked(p, primary_input, proof_) ==
    online_verifier_weak_IC(p, primary_input, proof_)

online_verifier_strong_IC(p, primary_input, proof_) ==
    IF domain_size(p.encoded_IC_query) # Len(primary_input)
    THEN [out |-> "false", eqs |-> {}]
    ELSE online_verifier_weak_IC(p, primary_input, proof_)

\* a variant of verifier_weak_IC that runs the strong-IC online verifier
verifier_weak_IC_as_strong(v, primary_input, proof_) ==
    online_verifier_strong_IC(verifier_process_vk(v), primary_input, proof_)

verifier_weak_IC(v, primary_input, proof_) ==
    online_verifier_weak_IC(verifier_process_vk(v), primary_input, proof_)

verifier_strong_IC(v, primary_input, proof_) ==
    online_verifier_strong_IC(verifier_process_vk(v), primary_input, proof_)

(***************************************************************************)
(* The state machine: one action per function of the policy.               *)
(***************************************************************************)
\* n counts the verifier runs so far
NoCall == [fn |-> "none", x |-> <<>>, out |-> "none", eqs |-> {}, n |-> 0]

\* the primary inputs handed to a verifier: short, exact and too long
VerifierInputs ==
    UNION {Inputs(n) : n \in 0..(cs.num_inputs + MaxExtra)}

Init ==
    /\ cs \in ConstraintSystems
    /\ ndebug \in BOOLEAN
    /\ trap = None
    /\ pk = None
    /\ vk = None
    /\ pvk = None
    /\ prf = default_proof
    /\ wit = [src |-> "default", x |-> <<>>, y |-> <<>>, d |-> 0]
    /\ call = NoCall
    /\ locals = [generator |-> None, prover |-> None, frame |-> None]

Verifiers ==
    {"online_verifier_weak_IC", "verifier_weak_IC",
     "online_verifier_strong_IC", "verifier_strong_IC"}

\* a run ends with the verdict of a verifier (there is no retry)
Running == call.fn \notin Verifiers

\* generator(cs), run once, with t, alpha and tilde drawn from Ts, As and Taus
GeneratorOn(Ts, As, Taus) ==
    /\ pk = None
    /\ call.fn = "none"
    /\ \E t \in Ts, alpha \in As, tilde \in Taus :
          LET kp == generator(cs, t, alpha, tilde)
          IN  /\ trap' = [t |-> t, alpha |-> alpha, tilde |-> tilde]
              /\ pk' = kp.pk
              /\ vk' = kp.vk
              /\ call' = [NoCall EXCEPT !.fn = "generator", !.out = kp.status]
              /\ locals' = IF kp.status = "ok"
                            THEN [locals EXCEPT !.generator = kp.locals]
                            ELSE locals
    /\ UNCHANGED <<cs, ndebug, pvk, prf, wit>>

Generator == GeneratorOn(Fr, 0..Min(MaxAlpha, R - 1), 0..Min(MaxTilde, R - 1))

\* prover(pk, x, y), when go
ProverWhen(go) ==
    /\ go
    /\ pk # None
    /\ \E x \in Inputs(cs.num_inputs),
          y \in Inputs(cs.num_variables - cs.num_inputs),
          d \in Blindings,
          n \in ChunkCounts :
          LET r == prover(pk, x, y, d, n)
          IN  /\ call' = [NoCall EXCEPT !.fn = "prover", !.x = x, !.out = r.status,
                                        !.n = call.n]
              /\ IF r.status = "ok"
                 THEN /\ prf' = r.proof
                      /\ wit' = [src |-> "prover", x |-> x, y |-> y, d |-> d]
                      /\ locals' = [locals EXCEPT !.prover = r.locals]
                 ELSE UNCHANGED <<prf, wit, locals>>
    /\ UNCHANGED <<cs, ndebug, trap, pk, vk, pvk>>

Prover == ProverWhen(Running)

\* verifier_process_vk(vk), when go
VerifierProcessVkWhen(go) ==
    /\ go
    /\ vk # None
    /\ pvk = None
    /\ pvk' = verifier_process_vk(vk)
    /\ UNCHANGED <<cs, ndebug, trap, pk, vk, prf, wit, call, locals>>

VerifierProcessVk == VerifierProcessVkWhen(Running)

Verified(fn, x, r) ==
    /\ call' = [fn |-> fn, x |-> x, out |-> r.out, eqs |-> r.eqs, n |-> call.n + 1]
    /\ UNCHANGED <<cs, ndebug, trap, pk, vk, prf, wit, locals>>

\* a variant of pvk_after_weak_IC that accumulates into the key
pvk_accumulated_in_place(p, primary_input) ==
    [p EXCEPT !.encoded_IC_query =
                  accumulate_chunk(p.encoded_IC_query, primary_input, 0)]

\* the processed key the caller holds after online_verifier_weak_IC: the
\* key is taken by const reference and accumulate_chunk returns
\* accumulated_IC, a vector of its own
pvk_after_weak_IC(p, primary_input) == p

\* after online_verifier_strong_IC, which runs the weak verifier on equal
\* lengths only
pvk_after_strong_IC(p, primary_input) ==
    IF domain_size(p.encoded_IC_query) # Len(primary_input) THEN p
    ELSE pvk_after_weak_IC(p, primary_input)

OnlineVerifierWeakICWhen(go) ==
    /\ go
    /\ pvk # None
    /\ \E x \in VerifierInputs :
          /\ Verified("online_verifier_weak_IC", x,
                      online_verifier_weak_IC(pvk, x, prf))
          /\ pvk' = pvk_after_weak_IC(pvk, x)

\* verifier_weak_IC processes vk into a key of its own
VerifierWeakICWhen(go) ==
    /\ go
    /\ vk # None
    /\ \E x \in VerifierInputs :
          Verified("verifier_weak_IC", x, verifier_weak_IC(vk, x, prf))
    /\ UNCHANGED pvk

OnlineVerifierStrongICWhen(go) ==
    /\ go
    /\ pvk # None
    /\ \E x \in VerifierInputs :
          /\ Verified("online_verifier_strong_IC", x,
                      online_verifier_strong_IC(pvk, x, prf))
          /\ pvk' = pvk_after_strong_IC(pvk, x)

VerifierStrongICWhen(go) ==
    /\ go
    /\ vk # None
    /\ \E x \in VerifierInputs :
          Verified("verifier_strong_IC", x, verifier_strong_IC(vk, x, prf))
    /\ UNCHANGED pvk

OnlineVerifierWeakIC == OnlineVerifierWeakICWhen(Running)
VerifierWeakIC == VerifierWeakICWhen(Running)
OnlineVerifierStrongIC == OnlineVerifierStrongICWhen(Running)
VerifierStrongIC == VerifierStrongICWhen(Running)

Next ==
    \/ Generator
    \/ Prover
    \/ VerifierProcessVk
    \/ OnlineVerifierWeakIC
    \/ VerifierWeakIC
    \/ OnlineVerifierStrongIC
    \/ VerifierStrongIC

Spec == Init /\ [][Next]_vars

(***************************************************************************)
(* The adversarial specification: the proof handed to the verifier may be  *)
(* a tampered one; the keys are those of a few trapdoors.                  *)
(***************************************************************************)
Components == {"V_g1", "alpha_V_g1", "H_g1", "V_g2"}

\* the point g moved by the generator ("shift") or out of the prime-order
\* subgroup ("malform")
Tampered(g, how) ==
    IF how = "shift" THEN GAdd(g, G1_one) ELSE GElem(GDlog(g), 1 - GCof(g))

\* one component of the proof at hand is replaced, once
Tamper ==
    /\ Running
    /\ vk # None
    /\ wit.src # "tampered"
    /\ \E c \in Components, how \in {"shift", "malform"} :
          prf' = [prf EXCEPT ![c] = Tampered(prf[c], how)]
    /\ wit' = [wit EXCEPT !.src = "tampered"]
    /\ call' = [NoCall EXCEPT !.fn = "tamper", !.n = call.n]
    /\ UNCHANGED <<cs, ndebug, trap, pk, vk, pvk, locals>>

GeneratorAdv ==
    GeneratorOn(0..Min(MaxAdvT, R - 1), {Min(MaxAlpha, R - 1)}, {Min(MaxTilde, R - 1)})

NextAdv ==
    \/ GeneratorAdv
    \/ Prover
    \/ VerifierProcessVk
    \/ OnlineVerifierWeakIC
    \/ VerifierWeakIC
    \/ OnlineVerifierStrongIC
    \/ VerifierStrongIC
    \/ Tamper

SpecAdv == Init /\ [][NextAdv]_vars

(***************************************************************************)
(* The specification of the prover's preconditions: the proving key handed *)
(* to the prover may be one built with a query of another size.            *)
(***************************************************************************)
Queries == {"V_g1_query", "alpha_V_g1_query", "H_g1_query", "V_g2_query"}

\* a proving key constructed from the generated one with one more element
\* in one of its queries
OversizedKey ==
    /\ pk # None
    /\ call.fn = "generator"
    /\ \E q \in Queries : pk' = [pk EXCEPT ![q] = Append(@, G1_one)]
    /\ call' = [NoCall EXCEPT !.fn = "proving_key"]
    /\ UNCHANGED <<cs, ndebug, trap, vk, pvk, prf, wit, locals>>

NextKeys ==
    \/ GeneratorAdv
    \/ OversizedKey
    \/ Prover

SpecKeys == Init /\ [][NextKeys]_vars

(***************************************************************************)
(* The stepwise specification: generator and prover run statement by       *)
(* statement.  The frame of the running invocation (locals.frame) holds    *)
(* its arguments, the scalars sampled so far (vals), the statement run     *)
(* last and the names that were sampled before it ran.                     *)
(***************************************************************************)
\* a variant of generator_steps that samples alpha after the queries
generator_steps_alpha_late ==
    <<"t", "instance_map_with_evaluation", "Vt_table", "V_g1_query", "alpha",
      "tilde", "tilde_g2", "encoded_IC_query", "return">>

\* the statements of generator, in program order
generator_steps ==
    <<"t", "instance_map_with_evaluation", "Vt_table", "alpha", "V_g1_query",
      "tilde", "tilde_g2", "encoded_IC_query", "return">>

\* the statements of prover, in program order
prover_steps ==
    <<"d", "witness_map", "sanity_checks", "V_g1", "multiexp", "return">>

\* the statements that sample the scalar they are named after, and the set
\* the model draws it from
Sampled == {"t", "alpha", "tilde", "d"}
SampleSet(name) ==
    CASE name = "t" -> Fr
      [] name = "alpha" -> 0..Min(MaxAlpha, R - 1)
      [] name = "tilde" -> 0..Min(MaxTilde, R - 1)
      [] name = "d" -> Blindings

\* the sampled scalars a statement reads
Reads(step) ==
    CASE step = "instance_map_with_evaluation" -> {"t"}
      [] step = "V_g1_query" -> {"alpha"}
      [] step = "tilde_g2" -> {"tilde", "alpha"}
      [] step = "witness_map" -> {"d"}
      [] step = "V_g1" -> {"d"}
      [] OTHER -> {}

NoVals == [name \in {} |-> 0]

Frame(fn, args) ==
    [fn |-> fn, pc |-> 1, args |-> args, vals |-> NoVals,
     last |-> "entry", before |-> {}]

\* the frame after the statement step, which sampled the scalars of vals
Stepped(frame, step, vals) ==
    [frame EXCEPT !.pc = @ + 1, !.vals = vals, !.last = step,
                  !.before = DOMAIN frame.vals]

\* the value of a scalar of the frame, 0 while it is not sampled
ValOf(frame, name) ==
    IF name \in DOMAIN frame.vals THEN frame.vals[name] ELSE 0

\* generator(cs) is entered
GeneratorEnter ==
    /\ pk = None
    /\ call.fn = "none"
    /\ locals.frame = None
    /\ locals' = [locals EXCEPT !.frame = Frame("generator", <<>>)]
    /\ UNCHANGED <<cs, ndebug, trap, pk, vk, pvk, prf, wit, call>>

\* the generator ends with the outcome kp
GeneratorEnds(frame, kp) ==
    /\ trap' = [t |-> ValOf(frame, "t"), alpha |-> ValOf(frame, "alpha"),
                tilde |-> ValOf(frame, "tilde")]
    /\ pk' = kp.pk
    /\ vk' = kp.vk
    /\ call' = [NoCall EXCEPT !.fn = "generator", !.out = kp.status]
    /\ locals' = [generator |-> IF kp.status = "ok" THEN kp.locals
                                ELSE locals.generator,
                  prover |-> locals.prover,
                  frame |-> [frame EXCEPT !.pc = 0]]

\* one statement of generator
GeneratorStep ==
    /\ locals.frame # None
    /\ locals.frame.fn = "generator"
    /\ locals.frame.pc \in 1..Len(generator_steps)
    /\ LET frame == locals.frame
           step == generator_steps[frame.pc]
           kp == generator(cs, ValOf(frame, "t"), ValOf(frame, "alpha"),
                           ValOf(frame, "tilde"))
       IN  IF step \in Sampled
           THEN /\ \E v \in SampleSet(step) :
                      locals' = [locals EXCEPT !.frame =
                                    Stepped(frame, step, (step :> v) @@ frame.vals)]
                /\ UNCHANGED <<trap, pk, vk, call>>
           ELSE IF \/ step = "return"
                   \/ step = "instance_map_with_evaluation"
                          /\ kp.status = "InvalidShape"
                   \/ step = "Vt_table" /\ kp.status = "abort"
           THEN GeneratorEnds(Stepped(frame, step, frame.vals), kp)
           ELSE /\ locals' = [locals EXCEPT !.frame =
                                  Stepped(frame, step, frame.vals)]
                /\ UNCHANGED <<trap, pk, vk, call>>
    /\ UNCHANGED <<cs, ndebug, pvk, prf, wit>>

\* prover(pk, x, y) is entered, in a build of n chunks
ProverEnter ==
    /\ pk # None
    /\ call.fn = "generator"
    /\ \E x \in Inputs(cs.num_inputs),
          y \in Inputs(cs.num_variables - cs.num_inputs),
          n \in ChunkCounts :
          locals' = [locals EXCEPT !.frame =
                        Frame("prover", [x |-> x, y |-> y, n |-> n])]
    /\ call' = [NoCall EXCEPT !.fn = "prover", !.out = "running"]
    /\ UNCHANGED <<cs, ndebug, trap, pk, vk, pvk, prf, wit>>

\* the prover ends with the outcome r
ProverEnds(frame, r) ==
    /\ call' = [NoCall EXCEPT !.fn = "prover", !.x = frame.args.x,
                              !.out = r.status]
    /\ IF r.status = "ok"
       THEN /\ prf' = r.proof
            /\ wit' = [src |-> "prover", x |-> frame.args.x,
                       y |-> frame.args.y, d |-> ValOf(frame, "d")]
            /\ locals' = [locals EXCEPT !.prover = r.locals,
                                        !.frame = [frame EXCEPT !.pc = 0]]
       ELSE /\ locals' = [locals EXCEPT !.frame = [frame EXCEPT !.pc = 0]]
            /\ UNCHANGED <<prf, wit>>

\* one statement of prover
ProverStep ==
    /\ locals.frame # None
    /\ locals.frame.fn = "prover"
    /\ locals.frame.pc \in 1..Len(prover_steps)
    /\ LET frame == locals.frame
           step == prover_steps[frame.pc]
           r == prover(pk, frame.args.x, frame.args.y, ValOf(frame, "d"),
                       frame.args.n)
       IN  IF step \in Sampled
           THEN /\ \E v \in SampleSet(step) :
                      locals' = [locals EXCEPT !.frame =
                                    Stepped(frame, step, (step :> v) @@ frame.vals)]
                /\ UNCHANGED <<prf, wit, call>>
           ELSE IF \/ step = "return"
                   \/ step = "witness_map"
                          /\ r.status \in {"InvalidShape", "UnsatisfiedWitness"}
                   \/ step = "sanity_checks" /\ r.status = "abort"
           THEN ProverEnds(Stepped(frame, step, frame.vals), r)
           ELSE /\ locals' = [locals EXCEPT !.frame =
                                  Stepped(frame, step, frame.vals)]
                /\ UNCHANGED <<prf, wit, call>>
    /\ UNCHANGED <<cs, ndebug, trap, pk, vk, pvk>>

NextSteps ==
    \/ GeneratorEnter
    \/ GeneratorStep
    \/ ProverEnter
    \/ ProverStep

SpecSteps == Init /\ [][NextSteps]_vars

(***************************************************************************)
(* The sharing specification: the keys of one generator run are shared by  *)
(* prover and verifier calls in any order, MaxCalls of them verifier runs. *)
(***************************************************************************)
Sharing == call.n < MaxCalls

ProverShared == ProverWhen(Sharing)
VerifierProcessVkShared == VerifierProcessVkWhen(Sharing)
OnlineVerifierWeakICShared == OnlineVerifierWeakICWhen(Sharing)
VerifierWeakICShared == VerifierWeakICWhen(Sharing)
OnlineVerifierStrongICShared == OnlineVerifierStrongICWhen(Sharing)
VerifierStrongICShared == VerifierStrongICWhen(Sharing)

\* the shared keys are those of t = 0
GeneratorShared ==
    GeneratorOn({0}, {Min(MaxAlpha, R - 1)}, {Min(MaxTilde, R - 1)})

NextShared ==
    \/ GeneratorShared
    \/ ProverShared
    \/ VerifierProcessVkShared
    \/ OnlineVerifierWeakICShared
    \/ VerifierWeakICShared
    \/ OnlineVerifierStrongICShared
    \/ VerifierStrongICShared

SpecShared == Init /\ [][NextShared]_vars

(***************************************************************************)
(* The properties.  The pairing equations are stated on discrete           *)
(* logarithms, independently of the Miller loops of the verifier.          *)
(***************************************************************************)
\* e(P, Q), as an exponent of e(G1, G2)
Pairing(P, Q) == FMul(GDlog(P), GDlog(Q))

AllEquations == {"V", "SSP", "alpha"}

\* acc(x) = IC_0 + sum_i x_i * IC_i over the verification key, a short x
\* zero-padded
AccOf(x) ==
    LET q == vk.encoded_IC_query
    IN  GAdd(q.first,
             GSum([i \in 1..Len(q.rest) |->
                      IF i <= Len(x) THEN GMul(x[i], q.rest[i][2]) ELSE G1_zero],
                  1, Len(q.rest)))

EquationV(x) ==
    Pairing(GAdd(prf.V_g1, AccOf(x)), G2_one) = Pairing(G1_one, prf.V_g2)
EquationSSP(x) ==
    Pairing(GAdd(prf.V_g1, AccOf(x)), prf.V_g2)
        = FAdd(Pairing(prf.H_g1, vk.Z_g2), Pairing(G1_one, G2_one))
EquationAlpha ==
    Pairing(prf.V_g1, vk.alpha_tilde_g2) = Pairing(prf.alpha_V_g1, vk.tilde_g2)

\* the proof at hand is the prover's, for a satisfying assignment
HonestProof == wit.src = "prover" /\ is_satisfied(cs, wit.x, wit.y)

Returned == call.out \in {"true", "false"}

C5_KeySizes ==
    pk # None =>
        /\ Len(pk.V_g1_query) = cs.num_variables - cs.num_inputs + 1
        /\ Len(pk.alpha_V_g1_query) = cs.num_variables - cs.num_inputs + 1
        /\ Len(pk.H_g1_query) = degree(cs) + 1
        /\ Len(pk.V_g2_query) = cs.num_variables + 2
        /\ domain_size(vk.encoded_IC_query) = cs.num_inputs
        /\ Len(vk.encoded_IC_query.rest) = cs.num_inputs

C5_ProverAssertionsPassed ==
    /\ ~ndebug
    /\ pk # None
    /\ call.fn = "prover"
    /\ call.out = "ok"
    /\ cs.num_variables - cs.num_inputs + 1 # degree(cs) + 1

\* the default proof has been handed to verifier_weak_IC or verifier_strong_IC
DefaultProofVerdict ==
    /\ wit.src = "default"
    /\ prf = default_proof
    /\ call.fn \in {"verifier_weak_IC", "verifier_strong_IC"}

WrongStatement ==
    /\ call.fn \in Verifiers
    /\ HonestProof
    /\ Len(call.x) = Len(wit.x)
    /\ call.x # wit.x

WellFormedProof == \A c \in Components : GCof(prf[c]) = 0

AllChecksHold(x) ==
    /\ WellFormedProof
    /\ EquationV(x)
    /\ EquationSSP(x)
    /\ EquationAlpha

StrongVerifiers == {"online_verifier_strong_IC", "verifier_strong_IC"}

\* C2: the outcome of verifier_weak_IC(vk, x, pi) is that of
\* online_verifier_weak_IC on the processed key, and the other way round;
\* likewise for the strong-IC pair; the processed key is that of vk
C2_OnlineEquivalence ==
    /\ pvk # None => pvk = verifier_process_vk(vk)
    /\ (call.fn = "verifier_weak_IC" /\ pvk # None) =>
           call.out = online_verifier_weak_IC(pvk, call.x, prf).out
    /\ call.fn = "online_verifier_weak_IC" =>
           call.out = verifier_weak_IC(vk, call.x, prf).out
    /\ (call.fn = "verifier_strong_IC" /\ pvk # None) =>
           call.out = online_verifier_strong_IC(pvk, call.x, prf).out
    /\ call.fn = "online_verifier_strong_IC" =>
           call.out = verifier_strong_IC(vk, call.x, prf).out

C2_WeakAcceptsOnProcessedKey ==
    /\ call.fn = "verifier_weak_IC"
    /\ pvk # None
    /\ call.out = "true"
    /\ Len(call.x) < cs.num_inputs
    /\ online_verifier_weak_IC(pvk, call.x, prf).out = "true"

\* x followed by k zeros
Padded(x, k) == x \o [i \in 1..k |-> 0]

\* C3 as stated: verifier_weak_IC on a primary input of at most num_inputs
\* entries has the outcome it has on that input followed by k zeros,
\* whenever the padded input has at most num_inputs entries
C3_ZeroPadding ==
    (call.fn = "verifier_weak_IC" /\ Len(call.x) <= cs.num_inputs) =>
        \A k \in 0..(cs.num_inputs - Len(call.x)) :
            verifier_weak_IC(vk, Padded(call.x, k), prf).out = call.out

\* what is left of the padding in a build without assertions
ZeroPaddingWithoutAssertions == ndebug => C3_ZeroPadding

\* C4: online_verifier_strong_IC returns, and returns false when the length
\* of x is not the domain size of encoded_IC_query, and the outcome of
\* online_verifier_weak_IC when it is; so what it accepts weak IC accepts
C4_StrongLengthCheck ==
    call.fn = "online_verifier_strong_IC" =>
        /\ Returned
        /\ IF Len(call.x) # domain_size(pvk.encoded_IC_query)
           THEN call.out = "false"
           ELSE call.out = online_verifier_weak_IC(pvk, call.x, prf).out
        /\ call.out = "true" =>
               online_verifier_weak_IC(pvk, call.x, prf).out = "true"

C4_RejectedForLengthAlone ==
    /\ call.fn = "online_verifier_strong_IC"
    /\ Len(call.x) < domain_size(pvk.encoded_IC_query)
    /\ call.out = "false"
    /\ online_verifier_weak_IC(pvk, call.x, prf).out = "true"

\* C6: a run of online_verifier_weak_IC that returns, returns true exactly
\* when the proof is well formed and equations V, SSP and alpha hold; one
\* failed check of the four makes it false
C6_AcceptIffAllChecks ==
    (call.fn = "online_verifier_weak_IC" /\ Returned) =>
        (call.out = "true" <=> AllChecksHold(call.x))

C6_RejectedForMalformedPointAlone ==
    /\ call.fn = "online_verifier_weak_IC"
    /\ call.out = "false"
    /\ ~WellFormedProof
    /\ EquationV(call.x)
    /\ EquationSSP(call.x)
    /\ EquationAlpha

\* C7 as stated: every verifier run that returns has evaluated the three
\* pairing equations
C7_NoShortCircuit ==
    (call.fn \in Verifiers /\ Returned) => call.eqs = AllEquations

\* C7: a verifier run that returns has evaluated the three pairing
\* equations, whatever failed on the way, except a strong-IC run on a primary
\* input of the wrong length, which returns false with none evaluated
C7_NoShortCircuitPastLengthCheck ==
    (call.fn \in Verifiers /\ Returned) =>
        IF call.fn \in StrongVerifiers /\ Len(call.x) # cs.num_inputs
        THEN call.eqs = {} /\ call.out = "false"
        ELSE call.eqs = AllEquations

C7_AllEvaluatedAfterFailure ==
    /\ call.fn = "online_verifier_weak_IC"
    /\ call.out = "false"
    /\ ~WellFormedProof
    /\ ~EquationV(call.x)
    /\ call.eqs = AllEquations

\* C8 as stated: every verifier run ends with a boolean
C8_VerifierNeverRaises == call.fn \in Verifiers => Returned

\* some V_i(t), i in 0..num_inputs, is zero at the sampled t
DegenerateInputQuery ==
    \E i \in 0..cs.num_inputs : V_at(cs, i, trap.t) = 0

C13_SecretsErased ==
    /\ locals.generator # None =>
           locals.generator = [t |-> 0, alpha |-> 0, tilde |-> 0]
    /\ locals.prover # None => locals.prover = [d |-> 0]

\* the keys the generator returned for the sampled t, alpha and tilde
FreshKeys == generator(cs, trap.t, trap.alpha, trap.tilde)

\* the outcome of the last verifier call, run alone on fresh keys
OutcomeAlone ==
    LET v == FreshKeys.vk
        p == verifier_process_vk(v)
    IN  CASE call.fn = "online_verifier_weak_IC" ->
                 online_verifier_weak_IC(p, call.x, prf).out
          [] call.fn = "verifier_weak_IC" -> verifier_weak_IC(v, call.x, prf).out
          [] call.fn = "online_verifier_strong_IC" ->
                 online_verifier_strong_IC(p, call.x, prf).out
          [] call.fn = "verifier_strong_IC" ->
                 verifier_strong_IC(v, call.x, prf).out

ProvingKeySizes ==
    /\ Len(pk.V_g1_query) = pk.cs.num_variables - pk.cs.num_inputs + 1
    /\ Len(pk.alpha_V_g1_query) = pk.cs.num_variables - pk.cs.num_inputs + 1
    /\ Len(pk.H_g1_query) = degree(pk.cs) + 1
    /\ Len(pk.V_g2_query) = pk.cs.num_variables + 2

\* C15 as stated: the prover returns a proof only when (x, y) satisfies
\* pk.cs and the sizes of pk are the asserted ones; otherwise it ends in
\* UnsatisfiedWitness
C15_ProofOnlyOnPreconditions ==
    call.fn = "prover" =>
        /\ call.out \in {"ok", "UnsatisfiedWitness"}
        /\ call.out = "ok" =>
               (is_satisfied(pk.cs, wit.x, wit.y) /\ ProvingKeySizes)

\* C16: the generator run on a constraint system that is empty or has more
\* inputs than variables ends in InvalidShape and returns no keypair
C16_MalformedSystemRejected ==
    (call.fn = "generator" /\ ~is_valid_shape(cs)) =>
        /\ call.out = "InvalidShape"
        /\ pk = None
        /\ vk = None

C16_MoreInputsRejected ==
    /\ call.fn = "generator"
    /\ cs = CS_more_inputs
    /\ call.out = "InvalidShape"
    /\ trap # None

\* C17 as stated: in online_verifier_weak_IC, for a primary input no longer
\* than the domain of pvk.encoded_IC_query, the accumulated vector is fully
\* accumulated and the assertion on it passes
C17_FullyAccumulated ==
    (/\ call.fn = "online_verifier_weak_IC"
     /\ Len(call.x) <= domain_size(pvk.encoded_IC_query)) =>
        /\ is_fully_accumulated(
               accumulate_chunk(pvk.encoded_IC_query, call.x, 0))
        /\ call.out # "abort"

\* the four tables of the generator for the instance evaluation (Vt, Ht, Zt)
TablesOf(Vt, Ht, Zt) ==
    LET Vt_table == Append(Vt, Zt)
    IN  [Vt_table |-> Vt_table,
         Ht_table |-> Ht,
         Xt_table |-> Xt_table(Vt_table, cs.num_inputs),
         Vt_table_minus_Xt_table |->
             Vt_table_minus_Xt_table(Vt_table, cs.num_inputs)]

\* the sizes the generator asserts
TableSizes(T) ==
    /\ Len(T.Vt_table) = cs.num_variables + 2
    /\ Len(T.Ht_table) = degree(cs) + 1
    /\ Len(T.Xt_table) = cs.num_inputs + 1
    /\ Len(T.Vt_table_minus_Xt_table) = cs.num_variables - cs.num_inputs + 1

\* Vt as the data model has it: V_0(t), ..., V_num_variables(t) followed by
\* the dummy, num_variables + 2 entries
DataModelVt ==
    Append([i \in 1..(cs.num_variables + 1) |-> V_at(cs, i - 1, trap.t)],
           Z_at(cs, trap.t))

\* the instance evaluation the generator received
SampledInstance == instance_map_with_evaluation(cs, trap.t)

BlindedSum(lo) ==
    LET a == wit.x \o wit.y
    IN  FAdd(FSum([i \in 1..cs.num_variables |-> FMul(a[i], V_at(cs, i, trap.t))],
                  lo, cs.num_variables),
             FMul(wit.d, Z_at(cs, trap.t)))

\* p has V_g1 and V_g2 aligned with the assignment
Aligned(p) ==
    /\ p.V_g1 = GMul(BlindedSum(cs.num_inputs + 1), G1_one)
    /\ p.V_g2 = GMul(FAdd(V_at(cs, 0, trap.t), BlindedSum(1)), G2_one)
    /\ GDlog(GAdd(p.V_g1, AccOf(wit.x))) = GDlog(p.V_g2)

\* the witness of the proof at hand
WitnessAtHand == witness_map(cs, wit.x, wit.y, wit.d)

\* the same witness with coefficients_for_Vs as the data model has it:
\* num_variables + 1 entries, the constant slot first
DataModelWitness ==
    [WitnessAtHand EXCEPT !.coefficients_for_Vs = <<1>> \o @]

C20_QueryContents ==
    pk # None =>
        LET t == trap.t
            ni == cs.num_inputs
            nv == cs.num_variables
        IN  /\ vk.encoded_IC_query.first = GMul(V_at(cs, 0, t), G1_one)
            /\ Len(vk.encoded_IC_query.rest) = ni
            /\ \A i \in 1..ni :
                   vk.encoded_IC_query.rest[i] = <<i - 1, GMul(V_at(cs, i, t), G1_one)>>
            /\ Len(pk.V_g1_query) = nv - ni + 1
            /\ \A j \in 0..(nv - ni - 1) :
                   pk.V_g1_query[j + 1] = GMul(V_at(cs, ni + 1 + j, t), G1_one)
            /\ pk.V_g1_query[nv - ni + 1] = GMul(Z_at(cs, t), G1_one)
            /\ Len(pk.alpha_V_g1_query) = nv - ni + 1
            /\ \A j \in 1..(nv - ni + 1) :
                   pk.alpha_V_g1_query[j] = GMul(trap.alpha, pk.V_g1_query[j])
            /\ Len(pk.H_g1_query) = degree(cs) + 1
            /\ \A k \in 0..degree(cs) :
                   pk.H_g1_query[k + 1] = GMul(FPow(t, k), G1_one)
            /\ Len(pk.V_g2_query) = nv + 2
            /\ \A i \in 0..nv :
                   pk.V_g2_query[i + 1] = GMul(V_at(cs, i, t), G2_one)
            /\ pk.V_g2_query[nv + 2] = GMul(Z_at(cs, t), G2_one)
            /\ vk.tilde_g2 = GMul(trap.tilde, G2_one)
            /\ vk.alpha_tilde_g2 = GMul(FMul(trap.alpha, trap.tilde), G2_one)
            /\ vk.Z_g2 = GMul(Z_at(cs, t), G2_one)

C20_KeysOfTwoInputs ==
    /\ call.fn = "generator"
    /\ pk # None
    /\ cs = CS_two_inputs
    /\ trap.alpha = MaxAlpha
    /\ trap.tilde = MaxTilde
    /\ trap.t > 1
    /\ Z_at(cs, trap.t) # 0
    /\ V_at(cs, 3, trap.t) # 0

\* C21: every statement of generator and prover that reads one of the
\* sampled scalars t, alpha, tilde, d runs after the statement that sampled
\* it; the keys and the proof returned are those of the sampled scalars
C21_SampledBeforeRead ==
    /\ locals.frame # None => Reads(locals.frame.last) \subseteq locals.frame.before
    /\ (call.fn = "generator" /\ call.out = "ok") =>
           /\ DOMAIN locals.frame.vals = {"t", "alpha", "tilde"}
           /\ pk = generator(cs, locals.frame.vals["t"], locals.frame.vals["alpha"],
                             locals.frame.vals["tilde"]).pk
    /\ (call.fn = "prover" /\ call.out = "ok") =>
           prf = prover(pk, wit.x, wit.y, locals.frame.vals["d"],
                        locals.frame.args.n).proof

C21_ProverReadD ==
    /\ locals.frame # None
    /\ locals.frame.fn = "prover"
    /\ locals.frame.last = "V_g1"
    /\ locals.frame.vals["d"] # 0
    /\ trap.alpha # 0
    /\ trap.tilde # 0
    /\ pk # None

\* C22 as stated: the processed key holds e(G1, G2), the final exponentiation
\* of the Miller loop of the two generators, the precomputations of the
\* three G2 elements of vk and the encoded_IC_query of vk, and processing vk
\* again gives an equal key
C22_ProcessedKey ==
    pvk # None =>
        /\ pvk.pairing_of_g1_and_g2 =
               final_exponentiation(miller_loop(precompute_g1(G1_one),
                                                precompute_g2(G2_one)))
        /\ pvk.vk_tilde_g2_precomp = precompute_g2(vk.tilde_g2)
        /\ pvk.vk_alpha_tilde_g2_precomp = precompute_g2(vk.alpha_tilde_g2)
        /\ pvk.vk_Z_g2_precomp = precompute_g2(vk.Z_g2)
        /\ pvk.encoded_IC_query = vk.encoded_IC_query
        /\ verifier_process_vk(vk) = pvk

\* the proof the statements of prover compute from (x, y) and d, from the
\* sanity checks on, whether or not (x, y) satisfies the constraint system
ComputedProof(x, y, d) ==
    prover_with_witness(pk, x, y, ssp_witness(pk.cs, x, y, d), chunks)

\* alpha_V_g1 = alpha * V_g1, and equation alpha of the verifier passes
AlphaHolds(p) ==
    /\ p.alpha_V_g1 = GMul(trap.alpha, p.V_g1)
    /\ equation_alpha(verifier_process_vk(vk), p) = GT_one

\* C23: every proof the prover returns, and every proof its statements
\* compute from any (x, y) and d, has alpha_V_g1 = alpha * V_g1 and passes
\* equation alpha; a verifier that rejects a proof of the prover does so for
\* equation V or equation SSP (or, a strong-IC verifier, for the length of x)
C23_EquationAlpha ==
    /\ wit.src = "prover" => (AlphaHolds(prf) /\ EquationAlpha)
    /\ (call.fn = "generator" /\ pk # None) =>
           \A x \in Inputs(cs.num_inputs),
              y \in Inputs(cs.num_variables - cs.num_inputs),
              d \in Blindings :
              ComputedProof(x, y, d).status = "ok" =>
                  AlphaHolds(ComputedProof(x, y, d).proof)
    /\ (call.fn \in Verifiers /\ wit.src = "prover" /\ call.out = "false") =>
           \/ ~EquationV(call.x)
           \/ ~EquationSSP(call.x)
           \/ /\ call.fn \in StrongVerifiers
              /\ Len(call.x) # cs.num_inputs

C23_RejectedWithAlphaHolding ==
    /\ call.fn = "online_verifier_weak_IC"
    /\ wit.src = "prover"
    /\ call.out = "false"
    /\ "alpha" \in call.eqs
    /\ trap.alpha = MaxAlpha
    /\ trap.tilde # 0
    /\ GDlog(prf.V_g1) # 0
    /\ ndebug
    /\ \E x \in Inputs(cs.num_inputs), y \in Inputs(cs.num_variables - cs.num_inputs) :
           /\ ~is_satisfied(cs, x, y)
           /\ GDlog(ComputedProof(x, y, 1).proof.V_g1) # 0

\* x and x2 have the same length and differ in exactly one position
OneApart(x, x2) ==
    /\ Len(x) = Len(x2)
    /\ Cardinality({i \in 1..Len(x) : x[i] # x2[i]}) = 1

\* acc as the verifier computes it
AccumulatedIC(x) == accumulate_chunk(vk.encoded_IC_query, x, 0).first

\* equation V for a proof with the elements V_g1 and V_g2, under x
EquationVOf(V_g1, V_g2, x) ==
    Pairing(GAdd(V_g1, AccumulatedIC(x)), G2_one) = Pairing(G1_one, V_g2)

====
